---- MODULE Spec2Model ----
(***************************************************************************)
(* Model of the SHSAT practice app's serverless functions:                 *)
(*   netlify/functions/check-answer.js       (interactive answer check)    *)
(*   netlify/functions/generate-questions.js (batch question generation)   *)
(*                                                                         *)
(* Strings are sequences of one-character strings.  Numbers are exact      *)
(* rationals [n, d] with d > 0; NaN is the record with d = 0.  IEEE-754    *)
(* rounding of the doubles is not modelled.                                *)
(***************************************************************************)
EXTENDS Integers, Sequences, FiniteSets, TLC

\* ------------------------------------------------------------------------
\* Numbers
\* ------------------------------------------------------------------------

NaN == [n |-> 0, d |-> 0]

IsNaN(x) == x.d = 0

Num(n, d) == [n |-> n, d |-> d]

Abs(i) == IF i < 0 THEN -i ELSE i

RECURSIVE Pow10(_)
Pow10(k) == IF k = 0 THEN 1 ELSE 10 * Pow10(k - 1)

RECURSIVE Gcd(_, _)
Gcd(a, b) == IF b = 0 THEN a ELSE Gcd(b, a % b)

\* the same rational in lowest terms (keeps the products below small)
Reduce(x) ==
  LET g == Gcd(Abs(x.n), x.d) IN Num(x.n \div g, x.d \div g)

\* 1 / Tolerance: the matching tolerance is 1e-6
TolInverse == 1000000

\* x = y as rationals (neither is NaN)
NumEq(x, y) == x.n * y.d = y.n * x.d

\* Math.abs(x - y) < 1e-6 on two numbers (neither is NaN):
\* |x - y| * TolInverse < 1, computed without leaving the machine integers
WithinTol(x, y) ==
  LET a == Reduce(x)
      b == Reduce(y)
  IN  Abs(a.n * b.d - b.n * a.d) <= (a.d * b.d - 1) \div TolInverse

\* ------------------------------------------------------------------------
\* Characters and strings
\* ------------------------------------------------------------------------

DigitChars == <<"0", "1", "2", "3", "4", "5", "6", "7", "8", "9">>

IsDigit(c) == \E i \in 1..Len(DigitChars) : DigitChars[i] = c

DigitVal(c) == (CHOOSE i \in 1..Len(DigitChars) : DigitChars[i] = c) - 1

\* \s of the regular expressions and the characters trim() removes
IsSpace(c) == c = " "

UpperChars == <<"C", "M", "E">>

LowerChars == <<"c", "m", "e">>

\* String.prototype.toLowerCase on one character
ToLower(c) ==
  IF \E i \in 1..Len(UpperChars) : UpperChars[i] = c
  THEN LowerChars[CHOOSE i \in 1..Len(UpperChars) : UpperChars[i] = c]
  ELSE c

\* raw.replace(/,/g, "")
RECURSIVE StripCommas(_)
StripCommas(s) ==
  IF s = <<>> THEN <<>>
  ELSE IF Head(s) = "," THEN StripCommas(Tail(s))
  ELSE <<Head(s)>> \o StripCommas(Tail(s))

RECURSIVE TrimLeft(_)
TrimLeft(s) ==
  IF s # <<>> /\ IsSpace(Head(s)) THEN TrimLeft(Tail(s)) ELSE s

RECURSIVE TrimRight(_)
TrimRight(s) ==
  IF s # <<>> /\ IsSpace(s[Len(s)]) THEN TrimRight(SubSeq(s, 1, Len(s) - 1)) ELSE s

\* String.prototype.trim
Trim(s) == TrimRight(TrimLeft(s))

LowerCase(s) == [i \in 1..Len(s) |-> ToLower(s[i])]

\* a cleaning that trims before it removes the commas
CleanTrimFirst(raw) == LowerCase(StripCommas(Trim(raw)))

\* const cleaned = raw.replace(/,/g, "").trim().toLowerCase();
Clean(raw) == LowerCase(Trim(StripCommas(raw)))

\* first index at or after i that does not hold a digit (\d+ is greedy and
\* the character classes of the patterns are disjoint: no backtracking)
RECURSIVE SkipDigits(_, _)
SkipDigits(s, i) ==
  IF i <= Len(s) /\ IsDigit(s[i]) THEN SkipDigits(s, i + 1) ELSE i

RECURSIVE SkipSpaces(_, _)
SkipSpaces(s, i) ==
  IF i <= Len(s) /\ IsSpace(s[i]) THEN SkipSpaces(s, i + 1) ELSE i

\* parseInt of the digits s[a..b-1], base 10
RECURSIVE DigitsVal(_, _, _)
DigitsVal(s, a, b) ==
  IF b <= a THEN 0 ELSE 10 * DigitsVal(s, a, b - 1) + DigitVal(s[b - 1])

\* position after an optional leading "-" at position i
AfterSign(s, i) == IF i <= Len(s) /\ s[i] = "-" THEN i + 1 ELSE i

\* parseInt of -?\d+ found at s[a..b-1]
SignedVal(s, a, b) ==
  IF s[a] = "-" THEN - DigitsVal(s, a + 1, b) ELSE DigitsVal(s, a, b)

\* cleaned.match(/^(-?\d+)\s+(\d+)\s*\/\s*(\d+)/)
MatchMixed(s) ==
  LET p1 == AfterSign(s, 1)
      p2 == SkipDigits(s, p1)
      p3 == SkipSpaces(s, p2)
      p4 == SkipDigits(s, p3)
      p5 == SkipSpaces(s, p4)
      p6 == SkipSpaces(s, p5 + 1)
      p7 == SkipDigits(s, p6)
  IN  IF /\ p2 > p1
         /\ p3 > p2
         /\ p4 > p3
         /\ p5 <= Len(s)
         /\ s[p5] = "/"
         /\ p7 > p6
      THEN [ok |-> TRUE, whole |-> SignedVal(s, 1, p2),
            num |-> DigitsVal(s, p3, p4), den |-> DigitsVal(s, p6, p7), end |-> p7]
      ELSE [ok |-> FALSE, whole |-> 0, num |-> 0, den |-> 0, end |-> 0]

\* cleaned.match(/^(-?\d+)\s*\/\s*(\d+)/)
MatchSimple(s) ==
  LET p1 == AfterSign(s, 1)
      p2 == SkipDigits(s, p1)
      p3 == SkipSpaces(s, p2)
      p4 == SkipSpaces(s, p3 + 1)
      p5 == SkipDigits(s, p4)
  IN  IF /\ p2 > p1
         /\ p3 <= Len(s)
         /\ s[p3] = "/"
         /\ p5 > p4
      THEN [ok |-> TRUE, num |-> SignedVal(s, 1, p2), den |-> DigitsVal(s, p4, p5),
            end |-> p5]
      ELSE [ok |-> FALSE, num |-> 0, den |-> 0, end |-> 0]

\* leftmost position where /-?\d+(\.\d+)?/ matches: the first digit, or the
\* "-" right before it; 0 when the string holds no digit
RECURSIVE FirstDigit(_, _)
FirstDigit(s, i) ==
  IF i > Len(s) THEN 0
  ELSE IF IsDigit(s[i]) THEN i
  ELSE FirstDigit(s, i + 1)

\* cleaned.match(/-?\d+(\.\d+)?/) and parseFloat(m[0])
MatchDecimal(s) ==
  LET q  == FirstDigit(s, 1)
      neg == q > 1 /\ s[q - 1] = "-"
      e1 == SkipDigits(s, q)
      e2 == IF e1 <= Len(s) /\ s[e1] = "." THEN SkipDigits(s, e1 + 1) ELSE e1
      hasFrac == e2 > e1 + 1
      k  == IF hasFrac THEN e2 - (e1 + 1) ELSE 0
      mag == IF hasFrac
             THEN DigitsVal(s, q, e1) * Pow10(k) + DigitsVal(s, e1 + 1, e2)
             ELSE DigitsVal(s, q, e1)
  IN  IF q = 0 THEN [ok |-> FALSE, val |-> NaN]
      ELSE [ok |-> TRUE, val |-> Num(IF neg THEN - mag ELSE mag, Pow10(k))]

\* a missing choice (null / undefined)
Null == <<"null">>

\* a normalizer that adds the fraction of a mixed number whatever the sign
\* of the whole part
parseChoiceToNumberNoSign(raw) ==
  IF raw = Null THEN NaN
  ELSE
    LET cleaned == Clean(raw)
        m1 == MatchMixed(cleaned)
        m2 == MatchSimple(cleaned)
        m3 == MatchDecimal(cleaned)
    IN  IF m1.ok /\ m1.den # 0
        THEN Num(m1.whole * m1.den + m1.num, m1.den)
        ELSE IF m2.ok /\ m2.den # 0
        THEN Num(m2.num, m2.den)
        ELSE IF m3.ok
        THEN m3.val
        ELSE NaN

\* function parseChoiceToNumber(raw)
parseChoiceToNumber(raw) ==
  IF raw = Null THEN NaN
  ELSE
    LET cleaned == Clean(raw)
        m1 == MatchMixed(cleaned)
        m2 == MatchSimple(cleaned)
        m3 == MatchDecimal(cleaned)
    IN  IF m1.ok /\ m1.den # 0
        THEN Num(m1.whole * m1.den + (IF m1.whole >= 0 THEN m1.num ELSE - m1.num),
                 m1.den)
        ELSE IF m2.ok /\ m2.den # 0
        THEN Num(m2.num, m2.den)
        ELSE IF m3.ok
        THEN m3.val
        ELSE NaN

\* ------------------------------------------------------------------------
\* JSON values as the handlers see them
\* ------------------------------------------------------------------------

JNum(x) == [t |-> "num", v |-> x, s |-> <<>>, b |-> FALSE]

JInt(k) == JNum(Num(k, 1))

JStr(str) == [t |-> "str", v |-> NaN, s |-> str, b |-> FALSE]

JBool(flag) == [t |-> "bool", v |-> NaN, s |-> <<>>, b |-> flag]

JUndef == [t |-> "undef", v |-> NaN, s |-> <<>>, b |-> FALSE]

JNull == [t |-> "null", v |-> NaN, s |-> <<>>, b |-> FALSE]

\* Number.isInteger(j)
IsInteger(j) == j.t = "num" /\ ~IsNaN(j.v) /\ j.v.n % j.v.d = 0

\* the integer an integral JSON number stands for
IntOf(j) == j.v.n \div j.v.d

\* JavaScript truthiness, as used by !!x and x || ""
Truthy(j) ==
  CASE j.t = "num"  -> ~IsNaN(j.v) /\ j.v.n # 0
    [] j.t = "str"  -> j.s # <<>>
    [] j.t = "bool" -> j.b
    [] OTHER        -> FALSE

\* x || ""
OrEmpty(j) == IF Truthy(j) THEN j ELSE JStr(<<>>)

\* parseFloat(s): the longest prefix that is a decimal literal, after leading
\* whitespace; NaN when there is none.  end is the position after the prefix.
ParseFloatPrefix(s) ==
  LET p0 == SkipSpaces(s, 1)
      neg == p0 <= Len(s) /\ s[p0] = "-"
      p1 == IF p0 <= Len(s) /\ (s[p0] = "-" \/ s[p0] = "+") THEN p0 + 1 ELSE p0
      i1 == SkipDigits(s, p1)
      dot == i1 <= Len(s) /\ s[i1] = "."
      f1 == IF dot THEN SkipDigits(s, i1 + 1) ELSE i1
      k  == IF dot THEN f1 - (i1 + 1) ELSE 0
      mant == DigitsVal(s, p1, i1) * Pow10(k)
              + (IF dot THEN DigitsVal(s, i1 + 1, f1) ELSE 0)
      isExp == f1 <= Len(s) /\ (s[f1] = "e" \/ s[f1] = "E")
      eneg == isExp /\ f1 + 1 <= Len(s) /\ s[f1 + 1] = "-"
      e1 == IF isExp /\ f1 + 1 <= Len(s) /\ (s[f1 + 1] = "-" \/ s[f1 + 1] = "+")
            THEN f1 + 2 ELSE f1 + 1
      e2 == IF isExp THEN SkipDigits(s, e1) ELSE e1
      hasExp == isExp /\ e2 > e1
      ex == IF hasExp THEN DigitsVal(s, e1, e2) ELSE 0
      sm == IF neg THEN - mant ELSE mant
  IN  IF (i1 - p1) + k = 0 THEN [val |-> NaN, end |-> 1]
      ELSE [val |-> IF eneg THEN Num(sm, Pow10(k) * Pow10(ex))
                    ELSE Num(sm * Pow10(ex), Pow10(k)),
            end |-> IF hasExp THEN e2 ELSE f1]

ParseFloat(s) == ParseFloatPrefix(s).val

\* Number(x): a string must be a numeric literal as a whole ("" is 0)
NumberOf(j) ==
  CASE j.t = "num"  -> j.v
    [] j.t = "bool" -> IF j.b THEN Num(1, 1) ELSE Num(0, 1)
    [] j.t = "null" -> Num(0, 1)
    [] j.t = "str"  ->
         LET t == Trim(j.s)
             r == ParseFloatPrefix(t)
         IN  IF t = <<>> THEN Num(0, 1)
             ELSE IF ~IsNaN(r.val) /\ r.end = Len(t) + 1 THEN r.val
             ELSE NaN
    [] OTHER        -> NaN

\* x < y on two numbers
Less(x, y) == x.n * y.d < y.n * x.d

\* ------------------------------------------------------------------------
\* State
\* ------------------------------------------------------------------------

VARIABLES
  raw,        \* ChoiceNormalizer: the string handed to parseChoiceToNumber
  parsed,     \* ChoiceNormalizer: what parseChoiceToNumber returned
  npc,        \* ChoiceNormalizer: "input" before the call, "parsed" after it
  cEvent,     \* check-answer: the request (method, body, environment)
  cpc,        \* check-answer: "start", "awaitSolver", "done"
  cFetch,     \* check-answer: the solver requests issued so far
  cReply,     \* check-answer: what the solver call came back with
  cResponse,  \* check-answer: the response returned by the handler
  bEvent,     \* generate-questions: the request (method, body, environment)
  bpc,        \* generate-questions: "start", "awaitGeneration", "awaitSolver", "done"
  count,      \* generate-questions: the effective count
  bGen,       \* generate-questions: how the generation call came back ("none" before)
  generated,  \* generate-questions: the candidates as the generation call returned them
  questions,  \* generate-questions: the list under work (objects updated in place)
  idx,        \* generate-questions: the loop index of the solver pass
  solvedQuestions, \* generate-questions: the list the solver pass builds
  bFetch,     \* generate-questions: the requests issued so far
  bReplies,   \* generate-questions: what each solver call came back with
  bLog,       \* generate-questions: the console.error records
  bResponse   \* generate-questions: the response returned by the handler

normVars == <<raw, parsed, npc>>

checkVars == <<cEvent, cpc, cFetch, cReply, cResponse>>

batchVars ==
  <<bEvent, bpc, count, bGen, generated, questions, idx, solvedQuestions, bFetch,
    bReplies, bLog, bResponse>>

vars ==
  <<raw, parsed, npc, cEvent, cpc, cFetch, cReply, cResponse, bEvent, bpc, count,
    bGen, generated, questions, idx, solvedQuestions, bFetch, bReplies, bLog,
    bResponse>>

\* ------------------------------------------------------------------------
\* ChoiceNormalizer as a program of its own: one call of parseChoiceToNumber
\* ------------------------------------------------------------------------

\* longest raw string handed to the normalizer
MaxLen == 5

NormAlphabet == {"0", "1", "2", "-", " ", "/", ".", ",", "c"}

RawStrings == UNION {[1..k -> NormAlphabet] : k \in 0..MaxLen}

\* longer choice strings, with units, exponents and capitals
SampleStrings ==
  { <<"-", "2", " ", "1", "/", "4">>,
    <<"-", "0", " ", "1", "/", "2">>,
    <<"-", "1", " ", " ", "1", "/", " ", "2">>,
    <<"1", " ", "1", "/", "2", " ", "c", "m">>,
    <<"3", "/", "8", " ", "c", "u", "p">>,
    <<"5", " ", "C", "M">>,
    <<"-", "1", "/", "2", "5", "c">>,
    <<"1", ",", "0", "0", "0", ".", "5">>,
    <<"0", ".", "3", "7", "5">>,
    <<"-", "0", ".", "2", "5", " ", "m">>,
    <<"1", "e", "-", "7">>,
    <<"2", ".", "5", "E", "+", "2">>,
    <<"+", "0", ".", "5">>,
    <<"a", "b", "c">>,
    <<"x", "=", "1", "2">> }

NormInit ==
  /\ raw \in RawStrings \cup SampleStrings \cup {Null}
  /\ parsed = NaN
  /\ npc = "input"

NormIdle ==
  /\ raw = <<>>
  /\ parsed = NaN
  /\ npc = "idle"

Normalize ==
  /\ npc = "input"
  /\ parsed' = parseChoiceToNumber(raw)
  /\ npc' = "parsed"
  /\ UNCHANGED raw

\* ------------------------------------------------------------------------
\* check-answer.js: the interactive check (the handler exported last)
\* ------------------------------------------------------------------------

\* for (let i = 0; i < choices.length; i++) { ... break; }  (i counts from 0)
RECURSIVE MatchFrom(_, _, _)
MatchFrom(finalAnswer, choices, i) ==
  IF i >= Len(choices) THEN -1
  ELSE LET rawChoice == IF choices[i + 1] = Null THEN <<>> ELSE choices[i + 1]
           num == parseChoiceToNumber(rawChoice)
       IN  IF ~IsNaN(num) /\ WithinTol(num, finalAnswer)
           THEN i
           ELSE MatchFrom(finalAnswer, choices, i + 1)

\* the loop with the break left out: the last matching choice wins
RECURSIVE MatchLast(_, _, _)
MatchLast(finalAnswer, choices, i) ==
  IF i >= Len(choices) THEN -1
  ELSE LET rawChoice == IF choices[i + 1] = Null THEN <<>> ELSE choices[i + 1]
           num == parseChoiceToNumber(rawChoice)
           rest == MatchLast(finalAnswer, choices, i + 1)
       IN  IF rest # -1 THEN rest
           ELSE IF ~IsNaN(num) /\ WithinTol(num, finalAnswer) THEN i
           ELSE -1

\* a matcher that keeps the last matching choice instead of the first
AnswerMatcherLast(finalAnswer, choices) == MatchLast(finalAnswer, choices, 0)

\* let correctIndex = -1; for (...) {...}
AnswerMatcher(finalAnswer, choices) == MatchFrom(finalAnswer, choices, 0)

\* the numeric finalAnswer the math branch derives from result.finalAnswer;
\* NaN stands for "typeof finalAnswer !== 'number' || Number.isNaN(finalAnswer)"
FinalAnswerOf(faRaw) ==
  CASE faRaw.t = "num"   -> faRaw.v
    [] faRaw.t = "str"   -> ParseFloat(Trim(StripCommas(faRaw.s)))
    [] OTHER             -> NaN

NoResponse ==
  [statusCode |-> 0, error |-> "", hasResult |-> FALSE,
   correctIndex |-> -1, isCorrect |-> FALSE, solution |-> JUndef]

ErrorResponse(code, msg) ==
  [statusCode |-> code, error |-> msg, hasResult |-> FALSE,
   correctIndex |-> -1, isCorrect |-> FALSE, solution |-> JUndef]

OkResponse(ci, flag, sol) ==
  [statusCode |-> 200, error |-> "", hasResult |-> TRUE,
   correctIndex |-> ci, isCorrect |-> flag, solution |-> sol]

\* const { subject = "math", question } = body;
SubjectOf(ev) == IF ev.subject = "absent" THEN "math" ELSE ev.subject

\* !question || !question.prompt || !Array.isArray(question.choices)
QuestionInvalid(q) == ~q.present \/ q.prompt = "" \/ ~q.choicesIsArray

\* ["A","B","C","D"][userIndex] ?? "unknown"
LetterOf(userIndex) ==
  IF IsInteger(userIndex) /\ IntOf(userIndex) \in 0..3
  THEN <<"A", "B", "C", "D">>[IntOf(userIndex) + 1]
  ELSE "unknown"

\* a solverPrompt that lists the choices and the student's letter for every
\* subject
CheckSolverRequestWithChoices(ev) ==
  LET q == ev.question IN
  [prompt |-> q.prompt, showsChoices |-> TRUE,
   choices |-> [i \in 1..4 |-> IF i <= Len(q.choices) THEN q.choices[i] ELSE Null],
   letter |-> LetterOf(q.userIndex)]

\* the solverPrompt of the request: the math prompt carries the question
\* text only, the ELA prompt the four choices and the student's letter
CheckSolverRequest(ev) ==
  LET q == ev.question IN
  IF SubjectOf(ev) = "math"
  THEN [prompt |-> q.prompt, showsChoices |-> FALSE, choices |-> <<>>,
        letter |-> "none"]
  ELSE [prompt |-> q.prompt, showsChoices |-> TRUE,
        choices |-> [i \in 1..4 |-> IF i <= Len(q.choices) THEN q.choices[i] ELSE Null],
        letter |-> LetterOf(q.userIndex)]

\* isCorrect of the math branch: userIndex === correctIndex
MathIsCorrect(userIndex, correctIndex) ==
  IsInteger(userIndex) /\ IntOf(userIndex) = correctIndex

\* the ELA branch made to compare the indexes, as the math branch does
ElaIsCorrectCompared(userIndex, correctIndex, isCorrectFlag) ==
  MathIsCorrect(userIndex, correctIndex)

\* isCorrect of the ELA branch: !!result.isCorrect
ElaIsCorrect(userIndex, correctIndex, isCorrectFlag) == Truthy(isCorrectFlag)

\* lines 323-378: the math branch, given the parsed solver result
MathBranch(q, result) ==
  LET finalAnswer == FinalAnswerOf(result.finalAnswer)
      correctIndex == AnswerMatcher(finalAnswer, q.choices)
  IN  IF IsNaN(finalAnswer)
      THEN ErrorResponse(500, "Solver did not return numeric finalAnswer")
      ELSE IF correctIndex = -1
      THEN ErrorResponse(500, "Could not match finalAnswer to any choice")
      ELSE OkResponse(correctIndex, MathIsCorrect(q.userIndex, correctIndex),
                      OrEmpty(result.solution))

\* an ELA branch whose index check has no upper bound
ElaBranchNoUpperBound(q, result) ==
  LET ci == result.correctIndex IN
  IF ~IsInteger(ci) \/ IntOf(ci) < 0
  THEN ErrorResponse(500, "Solver returned invalid correctIndex")
  ELSE OkResponse(IntOf(ci), ElaIsCorrect(q.userIndex, IntOf(ci), result.isCorrect),
                  OrEmpty(result.solution))

\* lines 379-399: the ELA branch, given the parsed solver result
ElaBranch(q, result) ==
  LET ci == result.correctIndex IN
  IF ~IsInteger(ci) \/ IntOf(ci) < 0 \/ IntOf(ci) >= Len(q.choices)
  THEN ErrorResponse(500, "Solver returned invalid correctIndex")
  ELSE OkResponse(IntOf(ci), ElaIsCorrect(q.userIndex, IntOf(ci), result.isCorrect),
                  OrEmpty(result.solution))

\* the handler without its catch: a fetch that throws leaves no response
CheckAfterFetchNoCatch(ev, reply) ==
  CASE reply.kind = "throw"     -> NoResponse
    [] reply.kind = "notOk"     -> ErrorResponse(500, "LLM request failed")
    [] reply.kind = "badBody"   -> ErrorResponse(500, "Server error")
    [] reply.kind = "noContent" -> ErrorResponse(500, "No content from solver")
    [] reply.kind = "notJson"   -> ErrorResponse(500, "Failed to parse solver JSON")
    [] reply.kind = "null"      -> ErrorResponse(500, "Server error")
    [] OTHER -> IF SubjectOf(ev) = "math"
                THEN MathBranch(ev.question, reply.result)
                ELSE ElaBranch(ev.question, reply.result)

\* lines 292-406: everything the handler does once the fetch has settled
CheckAfterFetch(ev, reply) ==
  CASE reply.kind = "throw"     -> ErrorResponse(500, "Server error")
    [] reply.kind = "notOk"     -> ErrorResponse(500, "LLM request failed")
    [] reply.kind = "badBody"   -> ErrorResponse(500, "Server error")
    [] reply.kind = "noContent" -> ErrorResponse(500, "No content from solver")
    [] reply.kind = "notJson"   -> ErrorResponse(500, "Failed to parse solver JSON")
    [] reply.kind = "null"      -> ErrorResponse(500, "Server error")
    [] OTHER -> IF SubjectOf(ev) = "math"
                THEN MathBranch(ev.question, reply.result)
                ELSE ElaBranch(ev.question, reply.result)

\* the guards with the apiKey check moved before the question check
CheckGuardsKeyFirst(ev) ==
  IF ev.httpMethod # "POST" THEN ErrorResponse(405, "Method not allowed")
  ELSE IF ~ev.bodyValid THEN ErrorResponse(500, "Server error")
  ELSE IF ~ev.apiKey THEN ErrorResponse(500, "OPENAI_API_KEY is not set")
  ELSE IF QuestionInvalid(ev.question)
  THEN ErrorResponse(400, "Missing or invalid question data")
  ELSE NoResponse

\* the guards without the apiKey check
CheckGuardsNoKeyCheck(ev) ==
  IF ev.httpMethod # "POST" THEN ErrorResponse(405, "Method not allowed")
  ELSE IF ~ev.bodyValid THEN ErrorResponse(500, "Server error")
  ELSE IF QuestionInvalid(ev.question)
  THEN ErrorResponse(400, "Missing or invalid question data")
  ELSE NoResponse

\* method check, JSON.parse(event.body), question check, apiKey check, in
\* the order of lines 181-207; NoResponse when every guard passes
CheckGuards(ev) ==
  IF ev.httpMethod # "POST" THEN ErrorResponse(405, "Method not allowed")
  ELSE IF ~ev.bodyValid THEN ErrorResponse(500, "Server error")
  ELSE IF QuestionInvalid(ev.question)
  THEN ErrorResponse(400, "Missing or invalid question data")
  ELSE IF ~ev.apiKey THEN ErrorResponse(500, "OPENAI_API_KEY is not set")
  ELSE NoResponse

\* the choice strings of the interactive requests
ChoicePool ==
  { <<"1", "/", "4">>,
    <<"3", "/", "8">>,
    <<"0", ".", "3", "7", "5">>,
    <<"0", ".", "0", "0", "0", "0", "0", "1">>,
    <<"0", ".", "0", "0", "0", "0", "0", "0", "5">>,
    <<"a", "b", "c">> }

\* number of choices of a well-formed question
NumChoices == 4

ChoiceLists == [1..NumChoices -> ChoicePool]

UserIndexes == {JInt(0), JInt(1), JUndef}

Question(present, prompt, isArray, choices, userIndex) ==
  [present |-> present, prompt |-> prompt, choicesIsArray |-> isArray,
   choices |-> choices, userIndex |-> userIndex]

DefaultChoices ==
  << <<"1", "/", "4">>, <<"3", "/", "8">>, <<"a", "b", "c">>, <<"0", ".", "3", "7", "5">> >>

\* well-formed requests: every subject, choice list and userIndex
NominalCheckEvents ==
  { [httpMethod |-> "POST", bodyValid |-> TRUE, apiKey |-> TRUE, subject |-> sub,
     question |-> Question(TRUE, "P", TRUE, ch, ui)] :
       sub \in {"math", "ela"}, ch \in ChoiceLists, ui \in UserIndexes }

\* requests that exercise the guards
GuardCheckEvents ==
  { [httpMethod |-> m, bodyValid |-> bv, apiKey |-> key, subject |-> sub,
     question |-> q] :
       m \in {"POST", "GET"}, bv \in BOOLEAN, key \in BOOLEAN,
       sub \in {"math", "ela", "absent"},
       q \in { Question(TRUE, "P", TRUE, DefaultChoices, JInt(1)),
               Question(FALSE, "", FALSE, <<>>, JUndef),
               Question(TRUE, "", TRUE, DefaultChoices, JInt(1)),
               Question(TRUE, "P", FALSE, <<>>, JInt(1)) } }

\* choice arrays that do not hold four choices
OtherChoiceLists ==
  { <<>>,
    << <<"1", "/", "4">>, <<"3", "/", "8">>, <<"a", "b", "c">> >>,
    << <<"a", "b", "c">>, <<"1", "/", "4">>, <<"a", "b", "c">>, <<"a", "b", "c">>,
       <<"3", "/", "8">> >> }

\* requests whose question has some other number of choices
OtherLengthCheckEvents ==
  { [httpMethod |-> "POST", bodyValid |-> TRUE, apiKey |-> TRUE, subject |-> sub,
     question |-> Question(TRUE, "P", TRUE, ch, ui)] :
       sub \in {"math", "ela"}, ch \in OtherChoiceLists, ui \in UserIndexes }

CheckEvents == NominalCheckEvents \cup GuardCheckEvents \cup OtherLengthCheckEvents

SolverResult(fa, ci, flag, sol) ==
  [finalAnswer |-> fa, correctIndex |-> ci, isCorrect |-> flag, solution |-> sol]

NoResult == SolverResult(JUndef, JUndef, JUndef, JUndef)

SolutionText == JStr(<<"s">>)

\* { "finalAnswer": ..., "solution": ... }
NumericResults ==
  { SolverResult(fa, JUndef, JUndef, sol) :
      fa \in { JNum(Num(3, 8)), JInt(0), JInt(10),
               JStr(<<"0", ".", "3", "7", "5">>), JStr(<<"a", "b", "c">>), JUndef,
               JStr(<<"3", "/", "8">>), JStr(<<"0", ".", "2", "5", " ", "c", "m">>),
               JNull },
      sol \in {SolutionText, JUndef} }

\* { "correctIndex": ..., "isCorrect": ..., "solution": ... }
ChoiceResults ==
  { SolverResult(JUndef, ci, flag, SolutionText) :
      ci \in { JInt(0), JInt(1), JInt(4), JInt(-1), JNum(Num(3, 2)), JUndef },
      flag \in {JBool(TRUE), JBool(FALSE), JUndef} }

FailureKinds == {"throw", "notOk", "badBody", "noContent", "notJson", "null"}

\* what a call of the solver can come back with
SolverReplies ==
  { [kind |-> k, result |-> NoResult] : k \in FailureKinds }
  \cup { [kind |-> "object", result |-> r] : r \in NumericResults \cup ChoiceResults }

NoReply == [kind |-> "none", result |-> NoResult]

CheckInit ==
  /\ cEvent \in CheckEvents
  /\ cpc = "start"
  /\ cFetch = <<>>
  /\ cReply = NoReply
  /\ cResponse = NoResponse

CheckIdle ==
  /\ cEvent = [httpMethod |-> "none", bodyValid |-> FALSE, apiKey |-> FALSE,
               subject |-> "absent",
               question |-> Question(FALSE, "", FALSE, <<>>, JUndef)]
  /\ cpc = "idle"
  /\ cFetch = <<>>
  /\ cReply = NoReply
  /\ cResponse = NoResponse

\* a guard ends the request before any fetch
CheckRejects ==
  /\ cpc = "start"
  /\ CheckGuards(cEvent) # NoResponse
  /\ cResponse' = CheckGuards(cEvent)
  /\ cpc' = "done"
  /\ UNCHANGED <<cEvent, cFetch, cReply>>

\* the guards pass: const response = await fetch(...)
CheckCallsSolver ==
  /\ cpc = "start"
  /\ CheckGuards(cEvent) = NoResponse
  /\ cFetch' = Append(cFetch, CheckSolverRequest(cEvent))
  /\ cpc' = "awaitSolver"
  /\ UNCHANGED <<cEvent, cReply, cResponse>>

\* the fetch settles and the handler runs to its return
CheckSolverReplies ==
  /\ cpc = "awaitSolver"
  /\ \E reply \in SolverReplies :
       /\ cReply' = reply
       /\ cResponse' = CheckAfterFetch(cEvent, reply)
  /\ cpc' = "done"
  /\ UNCHANGED <<cEvent, cFetch>>

\* ------------------------------------------------------------------------
\* generate-questions.js: the batch endpoint
\* ------------------------------------------------------------------------

\* Math.min(10, ...)
MaxCount == 10

\* Math.max(1, ...)
MinCount == 1

\* Number(body.count) || 5
DefaultCount == 5

\* the default taken for count 0 as for a missing count
CountOrDefault(n) == IF IsNaN(n) \/ n.n = 0 THEN Num(DefaultCount, 1) ELSE n

\* Math.max(1, Math.min(10, v))
Clamp(v) ==
  LET m == IF Less(Num(MaxCount, 1), v) THEN Num(MaxCount, 1) ELSE v
  IN  IF Less(m, Num(MinCount, 1)) THEN Num(MinCount, 1) ELSE m

\* const count = Math.max(1, Math.min(10, Number(body.count) || 5));
EffectiveCount(countIn) == Clamp(CountOrDefault(NumberOf(countIn)))

\* a question candidate as generation returns it
Candidate(isObject, prompt, isArray, items, ci) ==
  [isObject |-> isObject, prompt |-> prompt,
   choices |-> [isArray |-> isArray, items |-> items],
   topic |-> <<"topic of", prompt>>, difficulty |-> "medium", passage |-> JUndef,
   correctIndex |-> ci, correctAnswer |-> JUndef, solution |-> JUndef]

\* a structural check that only asks for an array of choices
StructureInvalidAnyLength(q) == ~q.isObject \/ ~q.choices.isArray

\* !q || !Array.isArray(q.choices) || q.choices.length !== 4
StructureInvalid(q) ==
  ~q.isObject \/ ~q.choices.isArray \/ Len(q.choices.items) # NumChoices

\* !Number.isInteger(ci) || ci < 0 || ci >= q.choices.length
IndexInvalid(ci, q) ==
  ~IsInteger(ci) \/ IntOf(ci) < 0 \/ IntOf(ci) >= Len(q.choices.items)

\* an attach that writes the solution over the prompt
AttachOverPrompt(q, solverResult) ==
  LET ci == IntOf(solverResult.correctIndex) IN
  [q EXCEPT !.correctIndex = JInt(ci),
            !.correctAnswer = JStr(q.choices.items[ci + 1]),
            !.prompt = "solution"]

\* an attach that takes the first choice as correctAnswer
AttachFirstChoice(q, solverResult) ==
  LET ci == IntOf(solverResult.correctIndex) IN
  [q EXCEPT !.correctIndex = JInt(ci),
            !.correctAnswer = JStr(q.choices.items[1]),
            !.solution = OrEmpty(solverResult.solution)]

\* q.correctIndex = ci; q.correctAnswer = q.choices[ci]; q.solution = ... || "";
Attach(q, solverResult) ==
  LET ci == IntOf(solverResult.correctIndex) IN
  [q EXCEPT !.correctIndex = JInt(ci),
            !.correctAnswer = JStr(q.choices.items[ci + 1]),
            !.solution = OrEmpty(solverResult.solution)]

\* a solver request that withholds the choices
BatchSolverRequestBlind(q) ==
  [kind |-> "solver", prompt |-> q.prompt, showsChoices |-> FALSE,
   choices |-> <<>>]

\* the solverPrompt of the solver pass: question text and the four choices
BatchSolverRequest(q) ==
  [kind |-> "solver", prompt |-> q.prompt, showsChoices |-> TRUE,
   choices |-> q.choices.items]

GenerationRequest ==
  [kind |-> "generation", prompt |-> "userPrompt", showsChoices |-> FALSE,
   choices |-> <<>>]

LogEntry(msg, hasCandidate, q) ==
  [msg |-> msg, hasCandidate |-> hasCandidate, candidate |-> q]

NoCandidate == Candidate(FALSE, "", FALSE, <<>>, JUndef)

\* first structurally valid candidate at or after i
RECURSIVE FirstValidFrom(_, _)
FirstValidFrom(qs, i) ==
  IF i >= Len(qs) THEN Len(qs)
  ELSE IF ~qs[i + 1].isObject \/ ~qs[i + 1].choices.isArray
          \/ Len(qs[i + 1].choices.items) # 4
  THEN FirstValidFrom(qs, i + 1)
  ELSE i

\* a loop that resumes at the candidate just settled instead of the next
NextValidAgain(qs, i) == FirstValidFrom(qs, IF i > 0 THEN i - 1 ELSE i)

\* first index at or after i (from 0) whose candidate passes the structural
\* check; Len(qs) when there is none
RECURSIVE NextValid(_, _)
NextValid(qs, i) ==
  IF i >= Len(qs) THEN Len(qs)
  ELSE IF StructureInvalid(qs[i + 1]) THEN NextValid(qs, i + 1)
  ELSE i

\* console.error("Skipping invalid question structure:", q) for i..j-1
RECURSIVE SkipLog(_, _, _)
SkipLog(qs, i, j) ==
  IF i >= j THEN <<>>
  ELSE <<LogEntry("Skipping invalid question structure:", TRUE, qs[i + 1])>>
       \o SkipLog(qs, i + 1, j)

NoBatchResponse ==
  [statusCode |-> 0, error |-> "", hasDetails |-> FALSE, hasQuestions |-> FALSE,
   questions |-> <<>>]

BatchError(code, msg, details) ==
  [statusCode |-> code, error |-> msg, hasDetails |-> details,
   hasQuestions |-> FALSE, questions |-> <<>>]

BatchOk(qs) ==
  [statusCode |-> 200, error |-> "", hasDetails |-> FALSE, hasQuestions |-> TRUE,
   questions |-> qs]

\* const subject = body.subject || "math";
BatchSubject(ev) == IF ev.subject = "absent" THEN "math" ELSE ev.subject

\* the ELA branch: questions.filter(q => q && Array.isArray(q.choices) && ...)
ElaFilter(qs) == SelectSeq(qs, LAMBDA q : ~StructureInvalid(q))

\* the solver reply ends the whole request: the await throws, or reading
\* the result throws (lines 295, 318, 334), and the outer catch answers
ReplyThrows(reply) == reply.kind \in {"throw", "badBody", "null"}

\* the console.error record of a reply that drops the candidate
DropEntry(reply, q) ==
  CASE reply.kind = "notOk"     -> LogEntry("Solver API error:", FALSE, NoCandidate)
    [] reply.kind = "noContent" ->
         LogEntry("No content from solver for question:", TRUE, q)
    [] reply.kind = "notJson"   ->
         LogEntry("Failed to parse solver JSON:", FALSE, NoCandidate)
    [] OTHER ->
         LogEntry("Solver returned invalid correctIndex:", FALSE, NoCandidate)

\* the reply passes every check of lines 312-342
ReplyKeeps(reply, q) ==
  reply.kind = "object" /\ ~IndexInvalid(reply.result.correctIndex, q)

\* a loop that issues the calls for all remaining valid candidates at once
\* instead of awaiting each
ResumeLoopAllAtOnce(qs, solved, log, i) ==
  LET j == NextValid(qs, i)
      log2 == log \o SkipLog(qs, i, j)
      rest == SelectSeq(SubSeq(qs, j + 1, Len(qs)), LAMBDA q : ~StructureInvalid(q))
  IN  /\ idx' = j
      /\ questions' = IF j < Len(qs) THEN qs ELSE solved
      /\ solvedQuestions' = solved
      /\ bLog' = log2
      /\ IF j < Len(qs)
         THEN /\ bFetch' = bFetch \o [k \in 1..Len(rest) |-> BatchSolverRequest(rest[k])]
              /\ bpc' = "awaitSolver"
              /\ bResponse' = bResponse
         ELSE /\ bFetch' = bFetch
              /\ bpc' = "done"
              /\ bResponse' = BatchOk(solved)

\* the loop resumes at index i after a candidate was settled: skip the
\* structurally invalid candidates, then either call the solver for the next
\* valid one or leave the loop and answer
ResumeLoop(qs, solved, log, i) ==
  LET j == NextValid(qs, i)
      log2 == log \o SkipLog(qs, i, j)
  IN  /\ idx' = j
      /\ questions' = IF j < Len(qs) THEN qs ELSE solved
      /\ solvedQuestions' = solved
      /\ bLog' = log2
      /\ IF j < Len(qs)
         THEN /\ bFetch' = Append(bFetch, BatchSolverRequest(qs[j + 1]))
              /\ bpc' = "awaitSolver"
              /\ bResponse' = bResponse
         ELSE /\ bFetch' = bFetch
              /\ bpc' = "done"
              /\ bResponse' = BatchOk(solved)

\* the candidates generation can return
CandidatePool ==
  { Candidate(TRUE, "P1", TRUE, << <<"1">>, <<"2">>, <<"3">>, <<"4">> >>, JInt(2)),
    Candidate(TRUE, "P2", TRUE, << <<"5">>, <<"6">>, <<"7">>, <<"8">> >>, JInt(7)),
    Candidate(TRUE, "P3", TRUE, << <<"1">>, <<"2">>, <<"3">> >>, JInt(0)),
    NoCandidate }

\* most candidates in one generation reply
MaxCand == 3

CandidateLists == UNION { [1..k -> CandidatePool] : k \in 0..MaxCand }

CountInputs ==
  { JUndef, JStr(<<"a", "b", "c">>), JInt(0), JInt(-3), JInt(2), JInt(15),
    JNum(Num(5, 2)) }

NominalBatchEvents ==
  { [httpMethod |-> "POST", bodyValid |-> TRUE, apiKey |-> TRUE, subject |-> sub,
     count |-> c] : sub \in {"math", "ela"}, c \in CountInputs }

GuardBatchEvents ==
  { [httpMethod |-> m, bodyValid |-> bv, apiKey |-> key, subject |-> sub,
     count |-> c] :
       m \in {"POST", "GET"}, bv \in BOOLEAN, key \in BOOLEAN,
       sub \in {"math", "ela", "absent"}, c \in {JStr(<<"7">>)} }

BatchEvents == NominalBatchEvents \cup GuardBatchEvents

\* what the generation call can come back with
GenerationReplies ==
  { [kind |-> k, questions |-> <<>>] :
      k \in FailureKinds \cup {"noQuestions"} }
  \cup { [kind |-> "ok", questions |-> qs] : qs \in CandidateLists }

\* { "correctIndex": ..., "solution": ... }
BatchResults ==
  { SolverResult(JUndef, JInt(0), JUndef, sol) : sol \in {SolutionText, JUndef} }
  \cup { SolverResult(JUndef, ci, JUndef, SolutionText) :
           ci \in { JInt(3), JInt(4), JNum(Num(3, 2)), JUndef } }

\* what a solver call of the solver pass can come back with
BatchSolverReplies ==
  { [kind |-> k, result |-> NoResult] : k \in FailureKinds }
  \cup { [kind |-> "object", result |-> r] : r \in BatchResults }

BatchInit ==
  /\ bEvent \in BatchEvents
  /\ bpc = "start"
  /\ count = NaN
  /\ bGen = "none"
  /\ generated = <<>>
  /\ questions = <<>>
  /\ idx = 0
  /\ solvedQuestions = <<>>
  /\ bFetch = <<>>
  /\ bReplies = <<>>
  /\ bLog = <<>>
  /\ bResponse = NoBatchResponse

BatchIdle ==
  /\ bEvent = [httpMethod |-> "none", bodyValid |-> FALSE, apiKey |-> FALSE,
               subject |-> "absent", count |-> JUndef]
  /\ bpc = "idle"
  /\ count = NaN
  /\ bGen = "none"
  /\ generated = <<>>
  /\ questions = <<>>
  /\ idx = 0
  /\ solvedQuestions = <<>>
  /\ bFetch = <<>>
  /\ bReplies = <<>>
  /\ bLog = <<>>
  /\ bResponse = NoBatchResponse

FunctionError == LogEntry("Function error:", FALSE, NoCandidate)

\* lines 4-9: not a POST
BatchRejectsMethod ==
  /\ bpc = "start"
  /\ bEvent.httpMethod # "POST"
  /\ bResponse' = BatchError(405, "Method not allowed", FALSE)
  /\ bpc' = "done"
  /\ UNCHANGED <<bEvent, count, bGen, generated, questions, idx, solvedQuestions,
                 bFetch, bReplies, bLog>>

\* line 12: JSON.parse(event.body) throws and the outer catch answers
BatchRejectsBody ==
  /\ bpc = "start"
  /\ bEvent.httpMethod = "POST"
  /\ ~bEvent.bodyValid
  /\ bLog' = Append(bLog, FunctionError)
  /\ bResponse' = BatchError(500, "Server error", TRUE)
  /\ bpc' = "done"
  /\ UNCHANGED <<bEvent, count, bGen, generated, questions, idx, solvedQuestions,
                 bFetch, bReplies>>

\* lines 16-24: count is computed, then the credential is found missing
BatchRejectsKey ==
  /\ bpc = "start"
  /\ bEvent.httpMethod = "POST"
  /\ bEvent.bodyValid
  /\ ~bEvent.apiKey
  /\ count' = EffectiveCount(bEvent.count)
  /\ bResponse' = BatchError(500, "OPENAI_API_KEY is not set", FALSE)
  /\ bpc' = "done"
  /\ UNCHANGED <<bEvent, bGen, generated, questions, idx, solvedQuestions, bFetch,
                 bReplies, bLog>>

\* lines 12-218: the guards pass and the generation call is issued
BatchCallsGeneration ==
  /\ bpc = "start"
  /\ bEvent.httpMethod = "POST"
  /\ bEvent.bodyValid
  /\ bEvent.apiKey
  /\ count' = EffectiveCount(bEvent.count)
  /\ bFetch' = Append(bFetch, GenerationRequest)
  /\ bpc' = "awaitGeneration"
  /\ UNCHANGED <<bEvent, bGen, generated, questions, idx, solvedQuestions, bReplies,
                 bLog, bResponse>>

\* a generation check that takes a reply without a questions array for an
\* empty batch
GenerationFailureLenient(kind) ==
  CASE kind = "notOk" ->
         [log |-> LogEntry("OpenAI API error:", FALSE, NoCandidate),
          response |-> BatchError(500, "LLM request failed", TRUE)]
    [] kind = "noContent" ->
         [log |-> LogEntry("No content in OpenAI response:", FALSE, NoCandidate),
          response |-> BatchError(500, "No content from model", FALSE)]
    [] kind = "notJson" ->
         [log |-> LogEntry("Failed to parse JSON from model:", FALSE, NoCandidate),
          response |-> BatchError(500, "Failed to parse questions JSON", FALSE)]
    [] kind = "noQuestions" ->
         [log |-> LogEntry("Invalid questions format:", FALSE, NoCandidate),
          response |-> BatchOk(<<>>)]
    [] OTHER ->
         [log |-> FunctionError,
          response |-> BatchError(500, "Server error", TRUE)]

\* the response and console.error record of a failed generation call
GenerationFailure(kind) ==
  CASE kind = "notOk" ->
         [log |-> LogEntry("OpenAI API error:", FALSE, NoCandidate),
          response |-> BatchError(500, "LLM request failed", TRUE)]
    [] kind = "noContent" ->
         [log |-> LogEntry("No content in OpenAI response:", FALSE, NoCandidate),
          response |-> BatchError(500, "No content from model", FALSE)]
    [] kind = "notJson" ->
         [log |-> LogEntry("Failed to parse JSON from model:", FALSE, NoCandidate),
          response |-> BatchError(500, "Failed to parse questions JSON", FALSE)]
    [] kind = "noQuestions" ->
         [log |-> LogEntry("Invalid questions format:", FALSE, NoCandidate),
          response |-> BatchError(500, "Invalid questions format from model", FALSE)]
    [] OTHER ->
         [log |-> FunctionError,
          response |-> BatchError(500, "Server error", TRUE)]

\* lines 220-257: the generation call fails
GenerationFails ==
  /\ bpc = "awaitGeneration"
  /\ \E reply \in GenerationReplies :
       /\ reply.kind # "ok"
       /\ bGen' = reply.kind
       /\ bLog' = Append(bLog, GenerationFailure(reply.kind).log)
       /\ bResponse' = GenerationFailure(reply.kind).response
  /\ bpc' = "done"
  /\ UNCHANGED <<bEvent, count, generated, questions, idx, solvedQuestions, bFetch,
                 bReplies>>

\* lines 353-365: a non-math batch is filtered and returned
GenerationReturnsEla ==
  /\ bpc = "awaitGeneration"
  /\ BatchSubject(bEvent) # "math"
  /\ \E reply \in GenerationReplies :
       /\ reply.kind = "ok"
       /\ bGen' = "ok"
       /\ generated' = reply.questions
       /\ questions' = ElaFilter(reply.questions)
       /\ bResponse' = BatchOk(ElaFilter(reply.questions))
  /\ bpc' = "done"
  /\ UNCHANGED <<bEvent, count, idx, solvedQuestions, bFetch, bReplies, bLog>>

\* lines 258-310: a math batch enters the solver pass
GenerationReturnsMath ==
  /\ bpc = "awaitGeneration"
  /\ BatchSubject(bEvent) = "math"
  /\ \E reply \in GenerationReplies :
       /\ reply.kind = "ok"
       /\ bGen' = "ok"
       /\ generated' = reply.questions
       /\ ResumeLoop(reply.questions, <<>>, bLog, 0)
  /\ UNCHANGED <<bEvent, count, bReplies>>

\* lines 295, 318, 334 and 366-372: the solver call or the reading of its
\* result throws; the outer catch ends the request
SolverThrows ==
  /\ bpc = "awaitSolver"
  /\ \E reply \in BatchSolverReplies :
       /\ ReplyThrows(reply)
       /\ bReplies' = Append(bReplies, [idx |-> idx, reply |-> reply])
  /\ bLog' = Append(bLog, FunctionError)
  /\ bResponse' = BatchError(500, "Server error", TRUE)
  /\ bpc' = "done"
  /\ UNCHANGED <<bEvent, count, bGen, generated, questions, idx, solvedQuestions,
                 bFetch>>

\* lines 312-342: the reply fails a check, the candidate is skipped
SolverDrops ==
  /\ bpc = "awaitSolver"
  /\ \E reply \in BatchSolverReplies :
       /\ ~ReplyThrows(reply)
       /\ ~ReplyKeeps(reply, questions[idx + 1])
       /\ bReplies' = Append(bReplies, [idx |-> idx, reply |-> reply])
       /\ ResumeLoop(questions, solvedQuestions,
                     Append(bLog, DropEntry(reply, questions[idx + 1])), idx + 1)
  /\ UNCHANGED <<bEvent, count, bGen, generated>>

\* lines 344-349: the reply passes, the candidate is completed and kept
SolverKeeps ==
  /\ bpc = "awaitSolver"
  /\ \E reply \in BatchSolverReplies :
       /\ ReplyKeeps(reply, questions[idx + 1])
       /\ bReplies' = Append(bReplies, [idx |-> idx, reply |-> reply])
       /\ LET q == Attach(questions[idx + 1], reply.result)
          IN  ResumeLoop([questions EXCEPT ![idx + 1] = q],
                         Append(solvedQuestions, q), bLog, idx + 1)
  /\ UNCHANGED <<bEvent, count, bGen, generated>>

\* ------------------------------------------------------------------------
\* Properties of the interactive check
\* ------------------------------------------------------------------------

\* the request reached the math branch with a usable numeric finalAnswer
MathMatched ==
  /\ cpc = "done"
  /\ cReply.kind = "object"
  /\ SubjectOf(cEvent) = "math"
  /\ ~IsNaN(FinalAnswerOf(cReply.result.finalAnswer))

\* what choice number i (from 0) of the request normalizes to
ChoiceNumber(i) ==
  LET c == cEvent.question.choices[i + 1]
  IN  parseChoiceToNumber(IF c = Null THEN <<>> ELSE c)

\* the indexes whose choice normalizes to a number strictly within 1e-6 of
\* the finalAnswer: |n - finalAnswer| * 10^6 < 1
Qualifying ==
  LET fa == Reduce(FinalAnswerOf(cReply.result.finalAnswer)) IN
  { i \in 0..(Len(cEvent.question.choices) - 1) :
      /\ ~IsNaN(ChoiceNumber(i))
      /\ LET n == Reduce(ChoiceNumber(i))
             diff == Abs(n.n * fa.d - fa.n * n.d)
         IN  /\ diff <= (n.d * fa.d) \div TolInverse
             /\ diff * TolInverse < n.d * fa.d }

\* C1: AnswerMatcher returns the smallest index whose choice normalizes to a
\* number strictly within 1e-6 of finalAnswer (a choice that does not
\* normalize never qualifies, several qualifying choices are no error); when
\* no choice qualifies the request ends in an error response.
C1_FirstMatch ==
  MathMatched =>
    IF Qualifying = {}
    THEN cResponse.statusCode = 500 /\ ~cResponse.hasResult
    ELSE /\ cResponse.statusCode = 200
         /\ cResponse.correctIndex \in Qualifying
         /\ \A i \in Qualifying : cResponse.correctIndex <= i

\* C1 witness: two choices qualify, the first choice does not normalize, and
\* the lower of the two qualifying indexes was returned
C1_Witness ==
  /\ MathMatched
  /\ Cardinality(Qualifying) >= 2
  /\ IsNaN(ChoiceNumber(0))
  /\ cResponse.statusCode = 200
  /\ cResponse.correctIndex = 1

\* userIndex equals the returned correctIndex
UserPickedCorrect ==
  /\ IsInteger(cEvent.question.userIndex)
  /\ IntOf(cEvent.question.userIndex) = cResponse.correctIndex

CheckSucceeded == cpc = "done" /\ cResponse.statusCode = 200

CheckAnswered == cpc = "done" /\ cReply.kind # "none"

\* the declared correctIndex is an integer that indexes a submitted choice
DeclaredIndexValid ==
  /\ IsInteger(cReply.result.correctIndex)
  /\ IntOf(cReply.result.correctIndex) \in 0..(Len(cEvent.question.choices) - 1)

\* the delegate failed, or its result cannot be mapped to a choice
CheckFailure ==
  \/ cReply.kind \in FailureKinds
  \/ /\ SubjectOf(cEvent) = "math"
     /\ \/ IsNaN(FinalAnswerOf(cReply.result.finalAnswer))
        \/ Qualifying = {}
  \/ /\ SubjectOf(cEvent) # "math"
     /\ ~DeclaredIndexValid

CheckVariants ==
  { [cEvent EXCEPT !.question.choices = ch, !.question.userIndex = ui] :
      ch \in OtherChoiceLists \cup {DefaultChoices}, ui \in UserIndexes }

\* C21: blind numeric solve on the interactive path.  For the numeric
\* subject the delegate request depends on the prompt only: a check with
\* the same prompt and other choices or another userIndex sends the same
\* request, which holds no choice and no letter.  For any other subject the
\* request carries the four choices and the letter the user selected.
C21_BlindSolve ==
  Len(cFetch) = 1 =>
    IF SubjectOf(cEvent) = "math"
    THEN /\ cFetch[1].prompt = cEvent.question.prompt
         /\ ~cFetch[1].showsChoices
         /\ cFetch[1].choices = <<>>
         /\ cFetch[1].letter = "none"
         /\ \A ev \in CheckVariants : CheckSolverRequest(ev) = cFetch[1]
    ELSE /\ cFetch[1].prompt = cEvent.question.prompt
         /\ cFetch[1].showsChoices
         /\ \A i \in 1..4 :
              i <= Len(cEvent.question.choices)
                => cFetch[1].choices[i] = cEvent.question.choices[i]
         /\ LET ui == cEvent.question.userIndex
            IN  cFetch[1].letter
                  = IF ui.t = "num" /\ ui.v \in {Num(k, 1) : k \in 0..3}
                    THEN <<"A", "B", "C", "D">>[ui.v.n + 1]
                    ELSE "unknown"

\* C21 witness: a numeric check of a question whose choices and userIndex
\* differ from the default ones has sent the request that holds the prompt
\* only
C21_Witness ==
  /\ Len(cFetch) = 1
  /\ SubjectOf(cEvent) = "math"
  /\ cEvent.question.choices # DefaultChoices
  /\ cEvent.question.userIndex = JInt(0)
  /\ cFetch[1] = [prompt |-> "P", showsChoices |-> FALSE, choices |-> <<>>,
                   letter |-> "none"]

\* the string, without commas and surrounding whitespace, is as a whole one
\* numeric literal
IsNumericLiteral(str) ==
  LET t == Trim(StripCommas(str))
      r == ParseFloatPrefix(t)
  IN  t # <<>> /\ ~IsNaN(r.val) /\ r.end = Len(t) + 1

\* C26: finalAnswer coercion.  A finalAnswer that is a JSON number is used
\* as is; a string is accepted only when the whole string (commas and
\* surrounding whitespace removed) is a numeric literal; any other
\* finalAnswer ends the request with the error "Solver did not return
\* numeric finalAnswer" and is never matched against the choices.
C26_FinalAnswerCoercion ==
  (CheckAnswered /\ cReply.kind = "object" /\ SubjectOf(cEvent) = "math") =>
    LET fa == cReply.result.finalAnswer IN
    IF fa.t = "num" \/ (fa.t = "str" /\ IsNumericLiteral(fa.s))
    THEN cResponse.error # "Solver did not return numeric finalAnswer"
    ELSE /\ cResponse.statusCode = 500
         /\ cResponse.error = "Solver did not return numeric finalAnswer"

\* ------------------------------------------------------------------------
\* Properties of the ChoiceNormalizer
\* ------------------------------------------------------------------------

\* the whole cleaned string is a mixed fraction W N/D or a simple fraction
\* N/D, and D is 0
ZeroDenominatorFraction(str) ==
  LET s == Clean(str)
      m1 == MatchMixed(s)
      m2 == MatchSimple(s)
  IN  \/ m1.ok /\ m1.end = Len(s) + 1 /\ m1.den = 0
      \/ m2.ok /\ m2.end = Len(s) + 1 /\ m2.den = 0

\* C10: a mixed or simple fraction whose denominator is 0 normalizes to
\* failure, never to a number.
C10_ZeroDenominatorFails ==
  (npc = "parsed" /\ raw # Null /\ ZeroDenominatorFraction(raw)) => IsNaN(parsed)

\* the value of a mixed fraction: W + N/D, or W - N/D when W is negative
MixedValue(whole, num, den) ==
  IF whole < 0 THEN Num(whole * den - num, den) ELSE Num(whole * den + num, den)

\* the cleaned string begins with an integer or decimal: -?digits, then
\* possibly "." and digits; LeadingNumber gives its value
BeginsWithNumber(s) == SkipDigits(s, AfterSign(s, 1)) > AfterSign(s, 1)

LeadingNumber(s) ==
  LET a == AfterSign(s, 1)
      b == SkipDigits(s, a)
      c == IF b <= Len(s) /\ s[b] = "." THEN SkipDigits(s, b + 1) ELSE b
      k == IF c > b + 1 THEN c - (b + 1) ELSE 0
      mag == DigitsVal(s, a, b) * Pow10(k) + (IF k > 0 THEN DigitsVal(s, b + 1, c) ELSE 0)
  IN  Num(IF a > 1 THEN - mag ELSE mag, Pow10(k))

\* C11: parsing priority.  A cleaned string that begins with a mixed
\* fraction W N/D (D # 0) normalizes to W + N/D, or W - N/D when W is
\* negative; otherwise one that begins with a simple fraction N/D (D # 0)
\* normalizes to N/D; otherwise one that begins with an integer or decimal
\* normalizes to that number, whatever follows it.
C11_ParsingPriority ==
  (npc = "parsed" /\ raw # Null) =>
    LET s == Clean(raw)
        m1 == MatchMixed(s)
        m2 == MatchSimple(s)
    IN  /\ (m1.ok /\ m1.den # 0) =>
              (~IsNaN(parsed) /\ NumEq(parsed, MixedValue(m1.whole, m1.num, m1.den)))
        /\ (~m1.ok /\ m2.ok /\ m2.den # 0) =>
              (~IsNaN(parsed) /\ NumEq(parsed, Num(m2.num, m2.den)))
        /\ (~m1.ok /\ ~m2.ok /\ BeginsWithNumber(s)) =>
              (~IsNaN(parsed) /\ NumEq(parsed, LeadingNumber(s)))

\* "-2 1/4" has been normalized to -2.25
C11_Witness ==
  /\ npc = "parsed"
  /\ raw = <<"-", "2", " ", "1", "/", "4">>
  /\ NumEq(parsed, Num(-9, 4))

\* the cleaned string begins with none of the three forms
MatchesNoForm(s) ==
  ~MatchMixed(s).ok /\ ~MatchSimple(s).ok /\ ~BeginsWithNumber(s)

\* C12: a missing value, and every string that after cleaning is neither
\* a mixed fraction, a simple fraction nor an integer or decimal with an
\* optional suffix (a string with no digits, a string whose number comes
\* after other text), normalizes to failure and never to a number.
C12_UnmatchedFails ==
  (npc = "parsed" /\ (raw = Null \/ MatchesNoForm(Clean(raw)))) => IsNaN(parsed)

\* the whole string is one decimal literal (sign, digits, ".", exponent),
\* as Number.prototype.toString and parseFloat write and read it
IsDecimalString(str) ==
  LET r == ParseFloatPrefix(str)
  IN  str # <<>> /\ ~IsSpace(str[1]) /\ ~IsNaN(r.val) /\ r.end = Len(str) + 1

\* |x - y| <= 1e-9 on two numbers (neither is NaN)
WithinRoundTrip(x, y) ==
  LET a == Reduce(x)
      b == Reduce(y)
  IN  Abs(a.n * b.d - b.n * a.d) <= (a.d * b.d) \div Pow10(9)

\* C13: round trip on decimals.  Every decimal string that encodes a value
\* v (signed, without a digit before the point, or in exponent notation)
\* normalizes to v within 1e-9.
C13_DecimalRoundTrip ==
  (npc = "parsed" /\ raw # Null /\ IsDecimalString(raw)) =>
    (~IsNaN(parsed) /\ WithinRoundTrip(parsed, ParseFloat(raw)))

\* the sign of a number
IsPositive(x) == (x.n > 0 /\ x.d > 0) \/ (x.n < 0 /\ x.d < 0)
IsNegative(x) == (x.n < 0 /\ x.d > 0) \/ (x.n > 0 /\ x.d < 0)

\* the string begins with a minus sign immediately followed by a digit
BeginsMinusDigit(str) == Len(str) >= 2 /\ str[1] = "-" /\ IsDigit(str[2])

HasMinus(str) == \E i \in 1..Len(str) : str[i] = "-"

\* C30: sign preservation.  A string that begins with a minus sign
\* immediately followed by digits never normalizes to a value greater than
\* zero (a whole part of -0, as in "-0 1/2", included), and a string with
\* no minus sign never normalizes to a value less than zero.
C30_SignPreserved ==
  (npc = "parsed" /\ raw # Null /\ ~IsNaN(parsed)) =>
    /\ BeginsMinusDigit(raw) => ~IsPositive(parsed)
    /\ ~HasMinus(raw) => ~IsNegative(parsed)

\* the same result: both failures, or the same number
SameResult(x, y) ==
  IF IsNaN(x) \/ IsNaN(y) THEN IsNaN(x) /\ IsNaN(y) ELSE NumEq(x, y)

\* C27: cleaning is result-preserving and idempotent.  Normalizing a raw
\* string gives the same result as normalizing it with the commas removed,
\* the surrounding whitespace trimmed and the letters lower-cased, and
\* cleaning a cleaned string changes nothing.
C27_CleaningPreserves ==
  (npc = "parsed" /\ raw # Null) =>
    /\ SameResult(parsed, parseChoiceToNumber(Clean(raw)))
    /\ Clean(Clean(raw)) = Clean(raw)
    /\ \A i \in 1..Len(Clean(raw)) : Clean(raw)[i] # ","
    /\ Clean(raw) # <<>> =>
         (~IsSpace(Clean(raw)[1]) /\ ~IsSpace(Clean(raw)[Len(Clean(raw))]))

\* C27 witness: "1,000.5" has been normalized to 1000.5, as "1000.5" is
C27_Witness ==
  /\ npc = "parsed"
  /\ raw = <<"1", ",", "0", "0", "0", ".", "5">>
  /\ NumEq(parsed, Num(2001, 2))
  /\ NumEq(parseChoiceToNumber(<<"1", "0", "0", "0", ".", "5">>), Num(2001, 2))

\* ------------------------------------------------------------------------
\* Properties of the batch endpoint
\* ------------------------------------------------------------------------

BatchDone == bpc = "done"

BatchSucceeded == bpc = "done" /\ bResponse.statusCode = 200

\* the positions of bFetch that hold a solver request
SolverCalls == { i \in 1..Len(bFetch) : bFetch[i].kind = "solver" }

\* candidate k (from 1) of the generation reply has exactly 4 choices
HasFourChoices(k) ==
  /\ generated[k].isObject
  /\ generated[k].choices.isArray
  /\ Len(generated[k].choices.items) = 4

\* an integer in [0,3]
IndexInRange(ci) == IsInteger(ci) /\ IntOf(ci) >= 0 /\ IntOf(ci) <= 3

\* the solver call issued for candidate k came back with a well-formed
\* result: a JSON object whose correctIndex is an integer in [0,3]
DelegateSucceeded(k) ==
  \E r \in 1..Len(bReplies) :
    /\ bReplies[r].idx = k - 1
    /\ bReplies[r].reply.kind = "object"
    /\ IndexInRange(bReplies[r].reply.result.correctIndex)

\* C3: once the generation call has succeeded, a per-item delegate failure of
\* any kind only drops that item and the request still ends with a success
\* response carrying the survivors.
C3_ItemFailureOnlyDrops ==
  (BatchDone /\ bGen = "ok") =>
    /\ bResponse.statusCode = 200
    /\ bResponse.hasQuestions

\* C4: every question of a successful batch response, for every subject, has
\* exactly 4 choices and a correctIndex that is an integer in [0,3].
C4_OutputIndexInRange ==
  BatchSucceeded =>
    \A k \in 1..Len(bResponse.questions) :
      /\ Len(bResponse.questions[k].choices.items) = 4
      /\ IndexInRange(bResponse.questions[k].correctIndex)

\* the question carries an integer correctIndex, the raw choice at that index
\* as correctAnswer, and a solution text
Completed(q) ==
  /\ IndexInRange(q.correctIndex)
  /\ q.correctAnswer = JStr(q.choices.items[IntOf(q.correctIndex) + 1])
  /\ q.solution.t = "str"

KeptReplies ==
  SelectSeq(bReplies,
            LAMBDA r : r.reply.kind = "object"
                       /\ IndexInRange(r.reply.result.correctIndex))

C7_NoCallForInvalid ==
  /\ Cardinality(SolverCalls)
       <= Cardinality({ k \in 1..Len(generated) : HasFourChoices(k) })
  /\ bpc = "awaitSolver" => HasFourChoices(idx + 1)
  /\ \A r \in 1..Len(bReplies) : HasFourChoices(bReplies[r].idx + 1)
  /\ BatchSucceeded =>
       \A k \in 1..Len(bResponse.questions) :
         /\ bResponse.questions[k].isObject
         /\ bResponse.questions[k].choices.isArray
         /\ Len(bResponse.questions[k].choices.items) = 4

\* C7 witness: a math batch of three candidates, two of them structurally
\* invalid, ended with exactly one delegate call
C7_Witness ==
  /\ BatchSucceeded
  /\ BatchSubject(bEvent) = "math"
  /\ Len(generated) = 3
  /\ Cardinality({ k \in 1..Len(generated) : HasFourChoices(k) }) = 1
  /\ ~generated[1].isObject
  /\ Cardinality(SolverCalls) = 1
  /\ Len(bResponse.questions) = 1

\* candidate k is one the claim expects in the result: it passes the
\* structural check, its delegate call succeeded and its index is valid
\* (for a non-math subject the index is the declared one)
Survives(k) ==
  /\ HasFourChoices(k)
  /\ IF BatchSubject(bEvent) = "math"
     THEN DelegateSucceeded(k)
     ELSE IndexInRange(generated[k].correctIndex)

\* the prompts of the surviving candidates among the first k, in order
RECURSIVE SurvivorPrompts(_)
SurvivorPrompts(k) ==
  IF k = 0 THEN <<>>
  ELSE IF Survives(k) THEN Append(SurvivorPrompts(k - 1), generated[k].prompt)
  ELSE SurvivorPrompts(k - 1)

\* C8: the returned list is exactly the subsequence of the candidates that
\* pass the structural check, whose delegate call succeeds and whose index is
\* valid, in their original order, whatever happens to the other candidates.
C8_ExactSubsequence ==
  (BatchDone /\ bGen = "ok") =>
    /\ bResponse.hasQuestions
    /\ [k \in 1..Len(bResponse.questions) |-> bResponse.questions[k].prompt]
         = SurvivorPrompts(Len(generated))

\* count has been computed from the request
CountComputed == ~IsNaN(count)

\* C9: the effective count is the request's count clamped to [1,10]: above
\* 10 gives 10, 0 and negative counts give 1, a non-numeric or missing count
\* gives one of the bounds, and the result always lies in [1,10].
C9_CountClamped ==
  CountComputed =>
    LET n == NumberOf(bEvent.count) IN
    /\ ~Less(count, Num(1, 1)) /\ ~Less(Num(10, 1), count)
    /\ IsNaN(n) => (NumEq(count, Num(1, 1)) \/ NumEq(count, Num(10, 1)))
    /\ (~IsNaN(n) /\ Less(Num(10, 1), n)) => NumEq(count, Num(10, 1))
    /\ (~IsNaN(n) /\ ~Less(Num(0, 1), n)) => NumEq(count, Num(1, 1))

\* the generation call came back and failed one of the checks
GenerationFailed == bGen \notin {"none", "ok"}

\* C16: a failure of the top-level generation call is request-fatal: the
\* request ends at once with an error response, no per-item delegate call
\* is made and no question list is returned.
C16_GenerationFatal ==
  GenerationFailed =>
    /\ bpc = "done"
    /\ bResponse.statusCode = 500
    /\ bResponse.error # ""
    /\ ~bResponse.hasQuestions
    /\ bResponse.questions = <<>>
    /\ SolverCalls = {}
    /\ Len(bFetch) = 1

\* C16 witness: a math batch whose generation reply was JSON without a
\* questions array ended with the corresponding error
C16_Witness ==
  /\ bGen = "noQuestions"
  /\ BatchSubject(bEvent) = "math"
  /\ bpc = "done"
  /\ bResponse.error = "Invalid questions format from model"

\* s is a prefix of t
IsPrefix(s, t) == Len(s) <= Len(t) /\ SubSeq(t, 1, Len(s)) = s

\* what has become of candidate k (from 1) of the solver pass: "kept",
\* "dropped" (skipped by the structural check or after its reply), "failed"
\* (its call threw and ended the request) or still "pending"
Outcome(k, replies, i) ==
  IF \E r \in 1..Len(replies) : replies[r].idx = k - 1
  THEN LET r == CHOOSE r \in 1..Len(replies) : replies[r].idx = k - 1
       IN  IF replies[r].reply.kind = "object"
              /\ IndexInRange(replies[r].reply.result.correctIndex)
           THEN "kept"
           ELSE IF replies[r].reply.kind \in {"throw", "badBody", "null"}
           THEN "failed"
           ELSE "dropped"
  ELSE IF k - 1 < i THEN "dropped"
  ELSE "pending"

\* delegate calls of the solver pass that have not come back yet
Outstanding == Cardinality(SolverCalls) - Len(bReplies)

\* C18: sequential batch processing.  At most one delegate call is
\* outstanding at any time; while a call is outstanding it is the call for
\* the current candidate, issued after every earlier candidate had been
\* kept or dropped.
C18_Sequential ==
  /\ Outstanding \in {0, 1}
  /\ Outstanding = 1 <=> bpc = "awaitSolver"
  /\ bpc = "awaitSolver" =>
       /\ bFetch[Len(bFetch)] = BatchSolverRequest(generated[idx + 1])
       /\ \A k \in 1..idx : Outcome(k, bReplies, idx) \in {"kept", "dropped"}

\* C18 witness: the call for the second candidate is outstanding after the
\* first candidate was kept
C18_Witness ==
  /\ bpc = "awaitSolver"
  /\ idx = 1
  /\ Len(bReplies) = 1
  /\ Len(solvedQuestions) = 1
  /\ Outstanding = 1

\* candidate k (from 1) was dropped by the run
Dropped(k) ==
  IF BatchSubject(bEvent) = "math"
  THEN Outcome(k, bReplies, idx) = "dropped"
  ELSE ~HasFourChoices(k)

\* the dropped candidates among the first k, in order
RECURSIVE DroppedCandidates(_)
DroppedCandidates(k) ==
  IF k = 0 THEN <<>>
  ELSE IF Dropped(k) THEN Append(DroppedCandidates(k - 1), generated[k])
  ELSE DroppedCandidates(k - 1)

\* C19: in a batch run of either subject every dropped candidate produces
\* exactly one diagnostic record, which gives the reason together with the
\* original candidate.
C19_DropDiagnostics ==
  BatchSucceeded =>
    LET dropped == DroppedCandidates(Len(generated)) IN
    /\ Len(bLog) = Len(dropped)
    /\ \A i \in 1..Len(bLog) :
         /\ bLog[i].msg # ""
         /\ bLog[i].hasCandidate
         /\ bLog[i].candidate = dropped[i]

\* ------------------------------------------------------------------------
\* Properties of both endpoints
\* ------------------------------------------------------------------------

\* at most one delegate call per question and per candidate, and every kept
\* candidate is one whose own delegate call succeeded
OneCallEach ==
  /\ Len(cFetch) <= 1
  /\ Cardinality(SolverCalls)
       = Len(bReplies) + (IF bpc = "awaitSolver" THEN 1 ELSE 0)
  /\ \A r, t \in 1..Len(bReplies) : r < t => bReplies[r].idx < bReplies[t].idx
  /\ bpc = "awaitSolver" => \A r \in 1..Len(bReplies) : bReplies[r].idx < idx
  /\ Len(solvedQuestions) = Len(KeptReplies)
  /\ \A k \in 1..Len(solvedQuestions) :
       solvedQuestions[k].prompt = generated[KeptReplies[k].idx + 1].prompt

\* a settled candidate keeps its outcome, nothing already done is redone
OutcomesStay ==
  /\ idx' >= idx
  /\ IsPrefix(solvedQuestions, solvedQuestions')
  /\ IsPrefix(bReplies, bReplies')
  /\ IsPrefix(bFetch, bFetch')
  /\ IsPrefix(cFetch, cFetch')
  /\ \A k \in 1..Len(generated) :
       Outcome(k, bReplies, idx) # "pending"
         => Outcome(k, bReplies', idx') = Outcome(k, bReplies, idx)
  /\ cpc = "done" => (cpc' = "done" /\ cResponse' = cResponse)
  /\ bpc = "done" => (bpc' = "done" /\ bResponse' = bResponse)

\* C17: no retries, terminal outcomes.  In one batch run and one interactive
\* check the delegate is invoked at most once per candidate or question; a
\* candidate that was kept or dropped is never processed again and keeps
\* its outcome; a kept numeric candidate follows a successful delegate call
\* for it.
C17_NoRetries == []OneCallEach /\ [][OutcomesStay]_vars

\* C17 witness: a math batch in which the first candidate was dropped after
\* its reply, the second kept, and the loop has moved on to a third call
C17_Witness ==
  /\ bpc = "awaitSolver"
  /\ idx = 2
  /\ Len(bReplies) = 2
  /\ Outcome(1, bReplies, idx) = "dropped"
  /\ Outcome(2, bReplies, idx) = "kept"
  /\ Cardinality(SolverCalls) = 3

KeyMissingMessage == "OPENAI_API_KEY is not set"

CheckKeyMissing == cpc # "idle" /\ ~cEvent.apiKey

BatchKeyMissing == bpc # "idle" /\ ~bEvent.apiKey

\* the request passes the guards that come before the credential check
CheckReachesKeyCheck ==
  cEvent.httpMethod = "POST" /\ cEvent.bodyValid /\ ~QuestionInvalid(cEvent.question)

BatchReachesKeyCheck == bEvent.httpMethod = "POST" /\ bEvent.bodyValid

\* C15 as stated: on both endpoints a request made while the credential is
\* absent ends with the error "OPENAI_API_KEY is not set" and issues no
\* generation or delegate call.
C15_Original ==
  /\ CheckKeyMissing =>
       /\ cFetch = <<>>
       /\ cpc = "done" => cResponse.error = KeyMissingMessage
  /\ BatchKeyMissing =>
       /\ bFetch = <<>>
       /\ bpc = "done" => bResponse.error = KeyMissingMessage

\* C15 amended: a request made while the credential is absent issues no
\* call and ends with an error response; when it passes the guards that
\* come first (method, body, question data) the error is
\* "OPENAI_API_KEY is not set", a message no other condition produces.
C15_MissingCredential ==
  /\ CheckKeyMissing =>
       /\ cFetch = <<>>
       /\ cpc = "done" =>
            /\ cResponse.statusCode # 200 /\ cResponse.error # ""
            /\ CheckReachesKeyCheck =>
                 (cResponse.statusCode = 500 /\ cResponse.error = KeyMissingMessage)
  /\ BatchKeyMissing =>
       /\ bFetch = <<>>
       /\ bpc = "done" =>
            /\ bResponse.statusCode # 200 /\ bResponse.error # ""
            /\ BatchReachesKeyCheck =>
                 (bResponse.statusCode = 500 /\ bResponse.error = KeyMissingMessage)
  /\ cResponse.error = KeyMissingMessage => CheckKeyMissing
  /\ bResponse.error = KeyMissingMessage => BatchKeyMissing

\* C15 witness: a well-formed check request made without the credential
\* ended with the credential error and no call
C15_Witness ==
  /\ cpc = "done"
  /\ ~cEvent.apiKey
  /\ CheckReachesKeyCheck
  /\ cResponse.error = KeyMissingMessage
  /\ cFetch = <<>>

\* q is g with at most correctIndex, correctAnswer and solution changed
SameButAnswer(q, g) ==
  /\ q.isObject = g.isObject
  /\ q.prompt = g.prompt
  /\ q.choices = g.choices
  /\ q.topic = g.topic
  /\ q.difficulty = g.difficulty
  /\ q.passage = g.passage

\* the solver pass is under way, or was ended by a throw
InSolverPass ==
  /\ bGen = "ok"
  /\ BatchSubject(bEvent) = "math"
  /\ Len(questions) = Len(generated)
  /\ bpc = "awaitSolver" \/ (bpc = "done" /\ bResponse.statusCode = 500)

\* C23: frame condition of the batch loop.  A dropped candidate is left
\* exactly as generation produced it; promoting a candidate changes only
\* its correctIndex, correctAnswer and solution: prompt, choices, topic,
\* difficulty and passage are returned unchanged.
C23_Frame ==
  /\ (bGen = "ok" /\ BatchSubject(bEvent) = "math") =>
       /\ Len(solvedQuestions) = Len(KeptReplies)
       /\ \A k \in 1..Len(solvedQuestions) :
            SameButAnswer(solvedQuestions[k], generated[KeptReplies[k].idx + 1])
  /\ InSolverPass =>
       \A k \in 1..Len(generated) :
         IF Outcome(k, bReplies, idx) = "kept"
         THEN SameButAnswer(questions[k], generated[k])
         ELSE questions[k] = generated[k]
  /\ BatchSucceeded =>
       \A k \in 1..Len(bResponse.questions) :
         \E g \in 1..Len(generated) :
           SameButAnswer(bResponse.questions[k], generated[g])

\* C23 witness: in a math pass the first candidate was dropped after its
\* reply and is unchanged, the second was promoted and differs from what
\* was generated
C23_Witness ==
  /\ InSolverPass
  /\ Len(generated) = 3
  /\ Outcome(1, bReplies, idx) = "dropped"
  /\ HasFourChoices(1)
  /\ questions[1] = generated[1]
  /\ Outcome(2, bReplies, idx) = "kept"
  /\ questions[2] # generated[2]

\* C24: the batch endpoint never exposes per-item failure detail.  Every
\* response of a request whose generation call succeeded holds no error
\* text and no exception detail stemming from a per-item delegate call: a
\* per-item failure shows only as a shorter question list.
C24_NoItemDetail ==
  (BatchDone /\ bGen = "ok") =>
    /\ bResponse.error = ""
    /\ ~bResponse.hasDetails
    /\ bResponse.hasQuestions

\* C25: batch size bound.  The returned list never holds more questions
\* than the effective requested count, and so never more than 10, even
\* when generation returns more candidates than were requested.
C25_SizeBound ==
  BatchSucceeded =>
    /\ ~Less(count, Num(Len(bResponse.questions), 1))
    /\ Len(bResponse.questions) <= 10

\* a field the delegate's JSON object does not have
Missing(j) == j.t = "undef"

\* C22: delegate response shape.  On both paths a delegate response that
\* lacks a required field (solution, and isCorrect for the choice-aware
\* shape of the interactive check) is a parse failure: an error response
\* on the interactive path, a dropped item in the batch; the missing field
\* is never replaced by a default.
C22_RequiredFields ==
  /\ (CheckAnswered /\ cReply.kind = "object") =>
       /\ Missing(cReply.result.solution) => cResponse.statusCode # 200
       /\ (SubjectOf(cEvent) # "math" /\ Missing(cReply.result.isCorrect))
            => cResponse.statusCode # 200
  /\ \A r \in 1..Len(bReplies) :
       (bReplies[r].reply.kind = "object" /\ Missing(bReplies[r].reply.result.solution))
         => Outcome(bReplies[r].idx + 1, bReplies, idx) # "kept"

\* C20: four-choice precondition.  On the batch path and on the
\* interactive path matching or index validation is only performed on a
\* question with exactly 4 choices; a question with another number of
\* choices is rejected first, so no response reports a correctIndex outside
\* [0,3].
C20_FourChoices ==
  /\ CheckSucceeded =>
       /\ Len(cEvent.question.choices) = 4
       /\ cResponse.correctIndex \in 0..3
  /\ bpc = "awaitSolver" => HasFourChoices(idx + 1)
  /\ BatchSucceeded =>
       \A k \in 1..Len(bResponse.questions) :
         /\ Len(bResponse.questions[k].choices.items) = 4
         /\ IndexInRange(bResponse.questions[k].correctIndex)

\* the interactive request carries a parsed body whose question is
\* missing, or lacks its prompt or its choices array
CheckMalformedQuestion ==
  cEvent.httpMethod = "POST" /\ cEvent.bodyValid /\ QuestionInvalid(cEvent.question)

\* C29: guard ordering.  The guards are evaluated in the order method check
\* (non-POST gives 405), then, on the interactive endpoint only, question
\* validity (a missing question, prompt or choices array gives 400), then
\* the credential check (500).  A request rejected by a guard issues no
\* generation or delegate call, and a malformed interactive question is
\* reported as 400 even when the credential is also missing.
C29_GuardOrder ==
  /\ (cpc # "idle" /\ cEvent.httpMethod # "POST") =>
       /\ cFetch = <<>>
       /\ cpc = "done" => cResponse.statusCode = 405
  /\ (cpc # "idle" /\ CheckMalformedQuestion) =>
       /\ cFetch = <<>>
       /\ cpc = "done" => cResponse.statusCode = 400
  /\ (CheckKeyMissing /\ CheckReachesKeyCheck) =>
       /\ cFetch = <<>>
       /\ cpc = "done" =>
            (cResponse.statusCode = 500 /\ cResponse.error = KeyMissingMessage)
  /\ cResponse.statusCode = 405 => cEvent.httpMethod # "POST"
  /\ cResponse.statusCode = 400 => CheckMalformedQuestion
  /\ (bpc # "idle" /\ bEvent.httpMethod # "POST") =>
       /\ bFetch = <<>>
       /\ bpc = "done" => bResponse.statusCode = 405
  /\ (BatchKeyMissing /\ BatchReachesKeyCheck) =>
       /\ bFetch = <<>>
       /\ bpc = "done" =>
            (bResponse.statusCode = 500 /\ bResponse.error = KeyMissingMessage)
  /\ bResponse.statusCode = 405 => bEvent.httpMethod # "POST"
  /\ bResponse.statusCode # 400

\* C29 witness: a POST whose question is malformed, made without the
\* credential, was answered 400 and no call was issued
C29_Witness ==
  /\ cpc = "done"
  /\ CheckMalformedQuestion
  /\ ~cEvent.apiKey
  /\ cResponse.statusCode = 400
  /\ cFetch = <<>>

\* the response is absent until the handler returns, and then it is one
\* response with status 200, 400, 405 or 500
OneResponse ==
  /\ cpc # "done" => cResponse = NoResponse
  /\ bpc # "done" => bResponse = NoBatchResponse
  /\ cpc = "done" => cResponse.statusCode \in {200, 400, 405, 500}
  /\ bpc = "done" => bResponse.statusCode \in {200, 400, 405, 500}

\* a response, once returned, is the response
ResponseStays ==
  /\ cpc = "done" => (cpc' = "done" /\ cResponse' = cResponse)
  /\ bpc = "done" => (bpc' = "done" /\ bResponse' = bResponse)

\* C28: every handler invocation produces exactly one response.  Provided
\* each external call eventually returns or throws, every batch request and
\* every interactive check eventually ends, with exactly one response whose
\* status is 200, 400, 405 or 500, also when the body is not valid JSON or
\* an external call throws.
C28_OneResponse ==
  /\ (cpc = "start") ~> (cpc = "done")
  /\ (bpc = "start") ~> (bpc = "done")
  /\ []OneResponse
  /\ [][ResponseStays]_vars

\* C28 witness: an interactive check whose solver call threw, and a batch
\* request whose body was not valid JSON, ended with a 500 response
C28_Witness ==
  \/ cpc = "done" /\ cReply.kind = "throw" /\ cResponse.statusCode = 500
  \/ /\ bpc = "done" /\ bEvent.httpMethod = "POST" /\ ~bEvent.bodyValid
     /\ bResponse.statusCode = 500

\* ------------------------------------------------------------------------
\* Specifications
\* ------------------------------------------------------------------------

NormNext == Normalize /\ UNCHANGED <<checkVars, batchVars>>

\* parseChoiceToNumber is called; neither handler is invoked
InitNorm == NormInit /\ CheckIdle /\ BatchIdle

SpecNorm == InitNorm /\ [][NormNext]_vars

CheckNext ==
  \/ CheckRejects /\ UNCHANGED <<normVars, batchVars>>
  \/ CheckCallsSolver /\ UNCHANGED <<normVars, batchVars>>
  \/ CheckSolverReplies /\ UNCHANGED <<normVars, batchVars>>

\* the check-answer handler is invoked
InitCheck == CheckInit /\ NormIdle /\ BatchIdle

SpecCheck == InitCheck /\ [][CheckNext]_vars

BatchNext ==
  \/ BatchRejectsMethod /\ UNCHANGED <<normVars, checkVars>>
  \/ BatchRejectsBody /\ UNCHANGED <<normVars, checkVars>>
  \/ BatchRejectsKey /\ UNCHANGED <<normVars, checkVars>>
  \/ BatchCallsGeneration /\ UNCHANGED <<normVars, checkVars>>
  \/ GenerationFails /\ UNCHANGED <<normVars, checkVars>>
  \/ GenerationReturnsEla /\ UNCHANGED <<normVars, checkVars>>
  \/ GenerationReturnsMath /\ UNCHANGED <<normVars, checkVars>>
  \/ SolverThrows /\ UNCHANGED <<normVars, checkVars>>
  \/ SolverDrops /\ UNCHANGED <<normVars, checkVars>>
  \/ SolverKeeps /\ UNCHANGED <<normVars, checkVars>>

\* the generate-questions handler is invoked
InitBatch == BatchInit /\ NormIdle /\ CheckIdle

SpecBatch == InitBatch /\ [][BatchNext]_vars

\* one request to either endpoint
InitEndpoints ==
  \/ CheckInit /\ NormIdle /\ BatchIdle
  \/ BatchInit /\ NormIdle /\ CheckIdle

EndpointsNext == CheckNext \/ BatchNext

SpecEndpoints == InitEndpoints /\ [][EndpointsNext]_vars

\* the check-answer handler moves on: from its start to the fetch or to a
\* return, and from the awaited fetch to a return
CheckAdvances ==
  cpc \in {"start", "awaitSolver"} /\ cpc' \in {"awaitSolver", "done"}

\* the handlers' own code runs on, and every awaited call eventually returns
\* or throws
FairEndpoints == SpecEndpoints /\ WF_cpc(CheckAdvances) /\ WF_vars(BatchNext)

====
